---- MODULE Spec2Model ----
(***************************************************************************)
(* The quote pipeline of stockfighter-graph-standalone.py: the feed thread *)
(* (ticker_thread) that receives, parses and enqueues records, the queue   *)
(* it shares with the render loop, and the aggregator (Data.update) that   *)
(* drains the queue into the frame history.                                *)
(***************************************************************************)
EXTENDS Integers, Sequences, FiniteSets, TLC

VARIABLES
    tick_queue,        \* Data.tick_queue: the records put and not yet got
    all_frames,        \* Data.all_frames
    width,             \* Data.width
    last_trade_time,   \* Data.last_trade_time
    last_price,        \* Data.last_price
    total_updates,     \* Data.total_updates
    main_pc,           \* where the render loop stands: "loop", "drain", "draw", "raised"
    feed_pc,           \* where ticker_thread stands: "start", "recv", "dead"
    ws,                \* the connection ticker_thread holds (0: none yet)
    recvs,             \* calls of ws.recv() made so far
    inbox,             \* history: every message ws.recv() returned, in order
    enqueued,          \* history: every record put on the queue, in order
    log,               \* history: one entry per record got from the queue
    trims,             \* history: one entry per truncation of all_frames
    cycle,             \* history: what the current call of Data.update did
    recording,         \* whether inbox, enqueued and log are kept
    venue,             \* Data.venue
    symbol,            \* Data.symbol
    url,               \* ticker_thread's url (<<>> before line 254)
    attempts,          \* history: the url of every create_connection call, in order
    drawn,             \* history: the draw_point calls of this cycle's draw_frames
    view,              \* Application: width, height, y_scale, mid_y
    devices,           \* Devices
    ui_pc,             \* where the input handling stands: "poll", "handle", "exited"
    poll,              \* history: what the last Devices.update_state was given and did
    conv,              \* a price taken through both coordinate conversions
    boot               \* the program's start: the prompt, the listing call, the chart

datavars == <<tick_queue, all_frames, width, last_trade_time, last_price, total_updates>>
feedvars == <<feed_pc, ws, recvs>>
histvars == <<inbox, enqueued, log, trims, cycle, recording>>
idvars == <<venue, symbol>>
connvars == <<url, attempts>>
uivars == <<view, devices, ui_pc, poll, conv, boot>>
pipevars == <<datavars, main_pc, feedvars, histvars, idvars, connvars, drawn>>
vars == <<datavars, main_pc, feedvars, histvars, idvars, connvars, drawn, uivars>>

-----------------------------------------------------------------------------
(* Bounds of the model *)

MaxRecv == 3          \* calls of ws.recv() in a behaviour
MaxCycles == 3        \* calls of Data.update in a behaviour of Spec
Width == 2            \* the width the chart is constructed with
MaxExtra == 2         \* calls of Data.update past the first trim check
MaxQueue == 2         \* records on the queue when the aggregator is studied alone
MaxDelta == 30        \* how far a converted price lies from the base prices
MaxEvents == 2        \* events one poll of the event queue delivers
MaxFrames == 2        \* polls of the event queue in a behaviour
ScenarioWidth == 50   \* the trim scenario's viewport width
ScenarioCycles == 5100 \* the trim scenario's number of cycles

(* Program constants *)

TrimEvery == 100
Height == 600
StartMid == 7500

-----------------------------------------------------------------------------
(* Python values: None and JSON null are <<>>, any other value v is <<v>> *)

None == <<>>
Some(v) == <<v>>

Keys == {"lastTrade", "last", "bid", "ask"}

EmptyDict == [k \in {} |-> None]

(* A decoded record. kind tells how Python treats it:                      *)
(*   "falsy"          null, false, 0, "", [], {}                           *)
(*   "nonmap"         a true value that is no mapping: list, string,       *)
(*                    number, true                                         *)
(*   "map_noquote"    a non-empty mapping without the key "quote"          *)
(*   "map_quote_bad"  a mapping whose "quote" entry is no mapping          *)
(*   "map_quote"      a mapping whose "quote" entry is the mapping fields  *)
Record(kind, fields) == [kind |-> kind, fields |-> fields]

Falsy == Record("falsy", EmptyDict)
NonMap == Record("nonmap", EmptyDict)
NoQuote == Record("map_noquote", EmptyDict)
BadQuote == Record("map_quote_bad", EmptyDict)
Quote(fields) == Record("map_quote", fields)

Truthy(rec) == rec.kind # "falsy"

(* quote["quote"][key]: the value, or the exception the subscripts raise *)
Lookup(rec, key) ==
    CASE rec.kind = "nonmap" -> [exc |-> "TypeError", val |-> None]
      [] rec.kind = "map_noquote" -> [exc |-> "KeyError", val |-> None]
      [] rec.kind = "map_quote_bad" -> [exc |-> "TypeError", val |-> None]
      [] rec.kind = "map_quote" ->
            IF key \in DOMAIN rec.fields
            THEN [exc |-> "none", val |-> rec.fields[key]]
            ELSE [exc |-> "KeyError", val |-> None]
      [] OTHER -> [exc |-> "TypeError", val |-> None]

-----------------------------------------------------------------------------
(* Frame and Point *)

Point(price, rgb, large) == [price |-> price, color |-> rgb, large |-> large]

Frame(trade, bid, ask) ==
    [trade |-> IF trade # None THEN Some(Point(trade[1], <<255, 255, 255>>, TRUE)) ELSE None,
     bid   |-> IF bid # None THEN Some(Point(bid[1], <<0, 180, 255>>, FALSE)) ELSE None,
     ask   |-> IF ask # None THEN Some(Point(ask[1], <<255, 0, 0>>, FALSE)) ELSE None]

PriceOf(p) == IF p = None THEN None ELSE Some(p[1].price)

-----------------------------------------------------------------------------
(* Data.update, the body of the drain loop for one record got from the     *)
(* queue. Each step yields the aggregator's fields after it and whether an *)
(* exception escaped ("raised").                                           *)

\* TradeStep without line 234: the identifier seen is never stored
TradeStepForgetsSeen(rec, ltt, lp) ==
    LET lt == Lookup(rec, "lastTrade")
        la == Lookup(rec, "last")
    IN  IF lt.exc = "TypeError"
        THEN [raised |-> TRUE, ltt |-> ltt, lp |-> lp, trade |-> None]
        ELSE IF lt.exc = "KeyError"
        THEN [raised |-> FALSE, ltt |-> ltt, lp |-> lp, trade |-> None]
        ELSE IF lt.val # ltt
        THEN IF la.exc = "none"
             THEN [raised |-> FALSE, ltt |-> ltt, lp |-> la.val, trade |-> la.val]
             ELSE [raised |-> la.exc = "TypeError", ltt |-> ltt, lp |-> lp, trade |-> None]
        ELSE [raised |-> FALSE, ltt |-> ltt, lp |-> lp, trade |-> None]

\* lines 231-238: the trade, added only if not seen before
TradeStep(rec, ltt, lp) ==
    LET lt == Lookup(rec, "lastTrade")
        la == Lookup(rec, "last")
    IN  IF lt.exc = "TypeError"
        THEN [raised |-> TRUE, ltt |-> ltt, lp |-> lp, trade |-> None]
        ELSE IF lt.exc = "KeyError"
        THEN [raised |-> FALSE, ltt |-> ltt, lp |-> lp, trade |-> None]
        ELSE IF lt.val # ltt
        THEN IF la.exc = "none"
             THEN [raised |-> FALSE, ltt |-> lt.val, lp |-> la.val, trade |-> la.val]
             ELSE [raised |-> la.exc = "TypeError", ltt |-> lt.val, lp |-> lp, trade |-> None]
        ELSE [raised |-> FALSE, ltt |-> ltt, lp |-> lp, trade |-> None]

\* lines 239-246: bid and ask, each under its own try
FieldStep(rec, key) ==
    LET f == Lookup(rec, key)
    IN  [raised |-> f.exc = "TypeError", val |-> IF f.exc = "none" THEN f.val ELSE None]

\* lines 224-248 for one record
Process(rec, ltt, lp) ==
    IF ~Truthy(rec)
    THEN [raised |-> FALSE, ltt |-> ltt, lp |-> lp, frame |-> Some(Frame(None, None, None))]
    ELSE LET t == TradeStep(rec, ltt, lp)
             b == FieldStep(rec, "bid")
             a == FieldStep(rec, "ask")
         IN  IF t.raised
             THEN [raised |-> TRUE, ltt |-> t.ltt, lp |-> t.lp, frame |-> None]
             ELSE IF b.raised \/ a.raised
             THEN [raised |-> TRUE, ltt |-> t.ltt, lp |-> t.lp, frame |-> None]
             ELSE [raised |-> FALSE, ltt |-> t.ltt, lp |-> t.lp,
                   frame |-> Some(Frame(t.trade, b.val, a.val))]

\* all_frames[:width] in place of all_frames[-width:]
FirstN(s, n) == SubSeq(s, 1, n)

\* all_frames[-width:] for a list longer than width
LastN(s, n) == IF n = 0 THEN s ELSE SubSeq(s, Len(s) - n + 1, Len(s))

\* the truncation keeping one entry too many
TrimKeepsOneMore(frames, updates, w) ==
    IF updates % TrimEvery = 0 /\ Len(frames) > w THEN LastN(frames, w + 1) ELSE frames

\* the truncation keeping one entry too few
TrimDropsOneMore(frames, updates, w) ==
    IF updates % TrimEvery = 0 /\ Len(frames) > w THEN LastN(frames, w - 1) ELSE frames

\* lines 219-220
Trim(frames, updates, w) ==
    IF updates % TrimEvery = 0 /\ Len(frames) > w THEN LastN(frames, w) ELSE frames

-----------------------------------------------------------------------------
(* Raw messages and json.loads *)

RawMessage(text, doc) == [text |-> text, doc |-> doc]
Garbage == RawMessage("garbage", Falsy)
Encode(rec) == RawMessage("json", rec)
CanParse(raw) == raw.text = "json"
JsonLoads(raw) == raw.doc

-----------------------------------------------------------------------------
(* The records of the model *)

TradeIds == {1, 2}

Dict(K, lt, la, b, a) ==
    [k \in K |-> CASE k = "lastTrade" -> lt [] k = "last" -> la [] k = "bid" -> b [] OTHER -> a]

\* the three records of the end-to-end scenario
Scenario1 == Quote(Dict({"bid", "ask"}, None, None, Some(100), Some(105)))
Scenario2 == Quote(Dict(Keys, Some(1), Some(102), Some(100), Some(105)))
Scenario3 == Quote(Dict(Keys, Some(1), Some(102), Some(101), Some(104)))

\* a record naming a trade without its price, and a later snapshot of that trade
TradeOnly == Quote(Dict({"lastTrade"}, Some(2), None, None, None))
TradeLater == Quote(Dict({"lastTrade", "last"}, Some(2), Some(103), None, None))

PipelineRecords ==
    {Falsy, NonMap, NoQuote, BadQuote, Scenario1, Scenario2, Scenario3, TradeOnly, TradeLater}

AllQuotes ==
    { Quote(Dict(K, lt, Some(102), Some(100), Some(105))) :
        K \in SUBSET Keys, lt \in {None} \cup {Some(t) : t \in TradeIds} }

AllRecords == AllQuotes \cup {Falsy, NonMap, NoQuote, BadQuote, Scenario3}

-----------------------------------------------------------------------------
(* Numbers with a fractional part (Python floats) are exact fractions      *)
(* <<n, d>> in lowest terms with d > 0.                                    *)

Abs(n) == IF n < 0 THEN -n ELSE n

RECURSIVE GCD(_, _)
GCD(a, b) == IF b = 0 THEN a ELSE GCD(b, a % b)

Frac(n, d) ==
    LET g == GCD(Abs(n), Abs(d))
        sgn == IF d < 0 THEN -1 ELSE 1
    IN  <<(sgn * n) \div g, (sgn * d) \div g>>

FromInt(n) == <<n, 1>>
FAdd(a, b) == Frac(a[1] * b[2] + b[1] * a[2], a[2] * b[2])
FSub(a, b) == Frac(a[1] * b[2] - b[1] * a[2], a[2] * b[2])
FMul(a, b) == Frac(a[1] * b[1], a[2] * b[2])
FDiv(a, b) == Frac(a[1] * b[2], a[2] * b[1])
FLeq(a, b) == a[1] * b[2] <= b[1] * a[2]

\* int(x): truncation towards zero
PyInt(a) == IF a[1] >= 0 THEN a[1] \div a[2] ELSE -((-a[1]) \div a[2])

\* line 318: y_scale = 0.04; line 64: mid_y = 7500
StartScale == Frac(4, 100)

NewView(w) == [width |-> w, height |-> Height, y_scale |-> StartScale, mid_y |-> FromInt(StartMid)]

\* line 80 with the sign of the offset slipped
PriceFromScreenYSignSlip(v, screen_y) ==
    PyInt(FAdd(v.mid_y,
               FDiv(FSub(FromInt(screen_y), FDiv(FromInt(v.height), FromInt(2))), v.y_scale)))

\* lines 76-77; price is a fraction
get_screen_y_from_price(v, price) ==
    PyInt(FSub(FDiv(FromInt(v.height), FromInt(2)),
               FMul(FSub(price, v.mid_y), v.y_scale)))

\* lines 79-80
get_price_from_screen_y(v, screen_y) ==
    PyInt(FSub(v.mid_y,
               FDiv(FSub(FromInt(screen_y), FDiv(FromInt(v.height), FromInt(2))), v.y_scale)))

\* lines 252-254
Url(v, s) == <<"wss://api.stockfighter.io/ob/api/ws/", "HOGEDOGE", "/venues/", v,
              "/tickertape/stocks/", s>>

\* lines 143-153
NewDevices ==
    [mousex |-> 0, mousey |-> 0, button |-> FALSE, keysdown |-> {},
     x_movement |-> 0, y_movement |-> 0,
     mwheel_rolled_down |-> FALSE, mwheel_rolled_up |-> FALSE]

NoPoll == [frames |-> 0, empty |-> TRUE, before |-> NewDevices, held_movement |-> 0,
           ups |-> FALSE, downs |-> FALSE]
NoConv == [pc |-> "idle", price |-> 0, screen_y |-> 0, back |-> 0]

\* a JSON value as get_json_from_url looks at it: whether "ok" in it holds,
\* what its "ok" entry equals, and its "symbols" entry
Body(t, has_ok, ok, symbols) == [t |-> t, has_ok |-> has_ok, ok |-> ok, symbols |-> symbols]

\* what requests.get and r.json() come back with
Reply(net, json, body) == [net |-> net, json |-> json, body |-> body]

Listing(symbols) == Reply("reply", TRUE, Body("dict", TRUE, TRUE, symbols))

NoReply == Reply("none", FALSE, Body("null", FALSE, FALSE, None))

Booted ==
    [pc |-> "chart", reply |-> Listing(Some(<<Some("FOOBAR")>>)), printed |-> <<>>, raised |-> None]

\* the input handling, the conversions and the start at rest
UiAtRest(w) ==
    /\ view = NewView(w)
    /\ devices = NewDevices
    /\ ui_pc = "poll"
    /\ poll = NoPoll
    /\ conv = NoConv
    /\ boot = Booted

-----------------------------------------------------------------------------
(* Initial state: Data.__init__, the thread just started *)

Remember(history, entry) == IF recording THEN Append(history, entry) ELSE history

PipeWith(w, rec, s, f, m) ==
    /\ recording = rec
    /\ venue = "TESTEX"
    /\ symbol = s
    /\ url = <<>>
    /\ attempts = <<>>
    /\ drawn = <<>>
    /\ tick_queue = <<>>
    /\ all_frames = <<>>
    /\ width = w
    /\ last_trade_time = None
    /\ last_price = None
    /\ total_updates = 0
    /\ main_pc = m
    /\ feed_pc = f
    /\ ws = 0
    /\ recvs = 0
    /\ inbox = <<>>
    /\ enqueued = <<>>
    /\ log = <<>>
    /\ trims = <<>>
    /\ cycle = [gets |-> 0, appended |-> 0]

PipeAtRest(w, rec) == PipeWith(w, rec, "FOOBAR", "start", "loop")

InitWith(w, rec) == PipeAtRest(w, rec) /\ UiAtRest(w)

Init == InitWith(Width, TRUE)

Alive == main_pc # "raised"

-----------------------------------------------------------------------------
(* ticker_thread *)

\* line 255: the first create_connection, outside any try
Connect ==
    /\ Alive
    /\ feed_pc = "start"
    /\ \E ok \in BOOLEAN :
        IF ok THEN ws' = ws + 1 /\ feed_pc' = "recv"
              ELSE ws' = ws /\ feed_pc' = "dead"
    /\ url' = Url(venue, symbol)
    /\ attempts' = Append(attempts, url')
    /\ UNCHANGED <<datavars, main_pc, recvs, histvars, idvars, drawn, uivars>>

\* ws.recv() raises and the loop goes on with the socket it has
RecvFailKeepsSocket(cap) ==
    /\ Alive
    /\ feed_pc = "recv"
    /\ recvs < cap
    /\ recvs' = recvs + 1
    /\ UNCHANGED <<datavars, main_pc, feed_pc, ws, histvars, idvars, connvars, drawn, uivars>>

\* lines 259-263: ws.recv() raises; create_connection in the handler
RecvFail(cap) ==
    /\ Alive
    /\ feed_pc = "recv"
    /\ recvs < cap
    /\ recvs' = recvs + 1
    /\ \E ok \in BOOLEAN :
        IF ok THEN ws' = ws + 1 /\ feed_pc' = "recv"
              ELSE ws' = ws /\ feed_pc' = "dead"
    /\ attempts' = Append(attempts, url)
    /\ UNCHANGED <<datavars, main_pc, histvars, idvars, url, drawn, uivars>>

\* the message forwarded whether or not it parsed
ForwardUnparsed(raw) ==
    /\ tick_queue' = Append(tick_queue, JsonLoads(raw))
    /\ enqueued' = Remember(enqueued, JsonLoads(raw))

\* lines 268-274 for a received message
Forward(raw) ==
    IF CanParse(raw)
    THEN /\ tick_queue' = Append(tick_queue, JsonLoads(raw))
         /\ enqueued' = Remember(enqueued, JsonLoads(raw))
    ELSE UNCHANGED <<tick_queue, enqueued>>

\* lines 259-274: ws.recv() returns a message
RecvMessage(msgs, cap) ==
    /\ Alive
    /\ feed_pc = "recv"
    /\ recvs < cap
    /\ recvs' = recvs + 1
    /\ \E raw \in msgs : inbox' = Remember(inbox, raw) /\ Forward(raw)
    /\ UNCHANGED <<all_frames, width, last_trade_time, last_price, total_updates,
                   main_pc, feed_pc, ws, log, trims, cycle, recording,
                   idvars, connvars, drawn, uivars>>

-----------------------------------------------------------------------------
(* Application.run and Data.update *)

\* lines 129-132, 218-220: the cycle up to the drain loop
UpdateBegin(cap) ==
    /\ main_pc = "loop"
    /\ total_updates < cap
    /\ total_updates' = total_updates + 1
    /\ all_frames' = Trim(all_frames, total_updates', width)
    /\ trims' = IF all_frames' # all_frames
                THEN Append(trims, [at |-> total_updates', before |-> Len(all_frames),
                                    after |-> Len(all_frames'), logged |-> Len(log)])
                ELSE trims
    /\ cycle' = [gets |-> 0, appended |-> 0]
    /\ main_pc' = "drain"
    /\ drawn' = <<>>
    /\ UNCHANGED <<tick_queue, width, last_trade_time, last_price, feedvars, inbox, enqueued,
                   log, recording, idvars, connvars, uivars>>

\* lines 227, 231-248: a record is got and converted
DrainOne ==
    /\ main_pc = "drain"
    /\ tick_queue # <<>>
    /\ LET rec == Head(tick_queue)
           p == Process(rec, last_trade_time, last_price)
       IN  /\ tick_queue' = Tail(tick_queue)
           /\ last_trade_time' = p.ltt
           /\ last_price' = p.lp
           /\ all_frames' = IF p.raised THEN all_frames ELSE Append(all_frames, p.frame[1])
           /\ main_pc' = IF p.raised THEN "raised" ELSE "drain"
           /\ log' = Remember(log, [rec |-> rec, seen |-> last_trade_time, frame |-> p.frame])
           /\ cycle' = [gets |-> cycle.gets + 1,
                        appended |-> cycle.appended + (IF p.raised THEN 0 ELSE 1)]
    /\ UNCHANGED <<width, total_updates, feedvars, inbox, enqueued, trims, recording,
                   idvars, connvars, drawn, uivars>>

\* a cycle that finds the queue empty still appends an empty Frame
DrainEmptyAppendsFrame ==
    /\ main_pc = "drain"
    /\ tick_queue = <<>>
    /\ main_pc' = "draw"
    /\ all_frames' = Append(all_frames, Frame(None, None, None))
    /\ cycle' = [gets |-> cycle.gets + 1, appended |-> cycle.appended + 1]
    /\ UNCHANGED <<tick_queue, width, last_trade_time, last_price, total_updates,
                   feedvars, inbox, enqueued, log, trims, recording,
                   idvars, connvars, drawn, uivars>>

\* lines 227-229: queue.Empty, update returns
DrainEmpty ==
    /\ main_pc = "drain"
    /\ tick_queue = <<>>
    /\ main_pc' = "draw"
    /\ cycle' = [cycle EXCEPT !.gets = @ + 1]
    /\ UNCHANGED <<datavars, feedvars, inbox, enqueued, log, trims, recording,
                   idvars, connvars, drawn, uivars>>

\* lines 133-139: caption, redraw, clock tick
\* one call of draw_point
DrawPoint(x, point) == [x |-> x, point |-> point]

\* the trade's mark made before the bid's and the ask's
FrameCallsTradeFirst(x, frame) ==
    (IF frame.trade # None THEN <<DrawPoint(x, frame.trade[1])>> ELSE <<>>)
    \o (IF frame.bid # None THEN <<DrawPoint(x, frame.bid[1])>> ELSE <<>>)
    \o (IF frame.ask # None THEN <<DrawPoint(x, frame.ask[1])>> ELSE <<>>)

\* lines 97-102: the calls of draw_point for one frame
FrameCalls(x, frame) ==
    (IF frame.bid # None THEN <<DrawPoint(x, frame.bid[1])>> ELSE <<>>)
    \o (IF frame.ask # None THEN <<DrawPoint(x, frame.ask[1])>> ELSE <<>>)
    \o (IF frame.trade # None THEN <<DrawPoint(x, frame.trade[1])>> ELSE <<>>)

\* lines 93-102: the loop over reversed(ls), at frame ls[i] with x as the last frame left it
RECURSIVE Reversed(_, _, _)
Reversed(ls, i, x) ==
    IF i = 0 THEN <<>>
    ELSE IF x - 1 < 0 THEN <<>>
    ELSE FrameCalls(x - 1, ls[i]) \o Reversed(ls, i - 1, x - 1)

\* lines 89-102
draw_frames(ls, w) == IF ls = <<>> THEN <<>> ELSE Reversed(ls, Len(ls), w)

\* lines 135-137
Draw ==
    /\ main_pc = "draw"
    /\ main_pc' = "loop"
    /\ drawn' = draw_frames(all_frames, view.width)
    /\ UNCHANGED <<datavars, feedvars, histvars, idvars, connvars, uivars>>

-----------------------------------------------------------------------------
(* The pipeline: feed thread and render loop interleaved *)

PipelineMessages == {Garbage} \cup {Encode(r) : r \in PipelineRecords}

Next ==
    \/ Connect
    \/ RecvFail(MaxRecv)
    \/ RecvMessage(PipelineMessages, MaxRecv)
    \/ UpdateBegin(MaxCycles)
    \/ DrainOne
    \/ DrainEmpty
    \/ Draw

Spec == Init /\ [][Next]_vars

-----------------------------------------------------------------------------
(* The aggregator alone: the feed thread received some messages, put their *)
(* records and then terminated on a failed reconnect, before the render    *)
(* loop's first cycle.                                                     *)

QueuesUpTo(n) == UNION { [1..k -> AllRecords] : k \in 0..n }

InitAgg ==
    \E q \in QueuesUpTo(MaxQueue) :
        /\ recording = TRUE
        /\ venue = "TESTEX"
        /\ symbol = "FOOBAR"
        /\ url = Url(venue, symbol)
        /\ attempts = <<url, url>>
        /\ drawn = <<>>
        /\ UiAtRest(Width)
        /\ tick_queue = q
        /\ all_frames = <<>>
        /\ width = Width
        /\ last_trade_time = None
        /\ last_price = None
        /\ total_updates = 0
        /\ main_pc = "loop"
        /\ feed_pc = "dead"
        /\ ws = 1
        /\ recvs = Len(q) + 1
        /\ inbox = [i \in 1..Len(q) |-> Encode(q[i])]
        /\ enqueued = q
        /\ log = <<>>
        /\ trims = <<>>
        /\ cycle = [gets |-> 0, appended |-> 0]

NextAgg ==
    \/ UpdateBegin(MaxCycles)
    \/ DrainOne
    \/ DrainEmpty
    \/ Draw

SpecAgg == InitAgg /\ [][NextAgg]_vars

-----------------------------------------------------------------------------
(* The pipeline run past the first trim check, with two kinds of record *)

LongRecords == {Scenario1, Scenario3}
LongMessages == {Encode(r) : r \in LongRecords}
LongRecv == Width + 2
LongCycles == TrimEvery + MaxExtra

NextLong ==
    \/ Connect
    \/ RecvFail(LongRecv)
    \/ RecvMessage(LongMessages, LongRecv)
    \/ UpdateBegin(LongCycles)
    \/ DrainOne
    \/ DrainEmpty
    \/ Draw

SpecLong == Init /\ [][NextLong]_vars

-----------------------------------------------------------------------------
(* The trim scenario: every cycle finds exactly one record on the queue *)

InitScenario == InitWith(ScenarioWidth, FALSE)

ScenarioFeed ==
    /\ main_pc = "loop"
    /\ tick_queue = <<>>
    /\ RecvMessage({Encode(Scenario1)}, ScenarioCycles)

ScenarioCycle ==
    /\ Len(tick_queue) = 1
    /\ UpdateBegin(ScenarioCycles)

NextScenario ==
    \/ Connect
    \/ ScenarioFeed
    \/ ScenarioCycle
    \/ DrainOne
    \/ DrainEmpty
    \/ Draw

SpecScenario == InitScenario /\ [][NextScenario]_vars

-----------------------------------------------------------------------------
(* Operators the properties are stated with *)

Yielded(e) == e.frame # None
HasTrade(e) == Yielded(e) /\ e.frame[1].trade # None

\* every Frame ever derived, in the order of derivation
Derived ==
    LET ok == SelectSeq(log, Yielded)
    IN  [i \in 1..Len(ok) |-> ok[i].frame[1]]

IsSuffix(s, t) == Len(s) <= Len(t) /\ s = SubSeq(t, Len(t) - Len(s) + 1, Len(t))

Min(a, b) == IF a < b THEN a ELSE b

\* a record's quote.key, absent when the path does not lead to a value
FieldOf(rec, key) == IF Lookup(rec, key).exc = "none" THEN Lookup(rec, key).val ELSE None

Carries(rec) == Lookup(rec, "lastTrade").exc = "none"

Parsed(msgs) ==
    LET ok == SelectSeq(msgs, CanParse)
    IN  [i \in 1..Len(ok) |-> JsonLoads(ok[i])]

-----------------------------------------------------------------------------
(* C1: Data.update never raises, whatever record the feed thread enqueued: *)
(* the render loop is never ended by an exception escaping the drain.      *)
C1_UpdateNeverRaises == main_pc # "raised"

(* C2: every record put on the queue is got exactly once, in the order of  *)
(* the puts, each record got yields exactly one Frame, and the Frames are  *)
(* appended to the history in that order.                                  *)
C2_ExactlyOnceInOrder ==
    LET n == Len(log)
    IN  /\ n <= Len(enqueued)
        /\ \A i \in 1..n : log[i].rec = enqueued[i]
        /\ tick_queue = SubSeq(enqueued, n + 1, Len(enqueued))
        /\ \A i \in 1..n : Yielded(log[i])
        /\ trims = <<>> => all_frames = Derived

(* C3: a Frame has a trade only if its record's lastTrade differs from the *)
(* identifier last seen when the record is processed; of two records got   *)
(* one after the other with the same lastTrade, at most one yields a Frame *)
(* with a trade.                                                           *)
C3_TradeDeduplicated ==
    /\ \A i \in 1..Len(log) :
        HasTrade(log[i]) =>
            /\ Carries(log[i].rec)
            /\ FieldOf(log[i].rec, "lastTrade") # log[i].seen
    /\ \A i \in 1..(Len(log) - 1) :
        ( /\ Carries(log[i].rec)
          /\ Carries(log[i + 1].rec)
          /\ FieldOf(log[i].rec, "lastTrade") = FieldOf(log[i + 1].rec, "lastTrade") )
        => ~(HasTrade(log[i]) /\ HasTrade(log[i + 1]))

\* two records with the same lastTrade, the first with a trade, the second got
\* as the first record of a later cycle
C3_Witness ==
    /\ main_pc = "drain"
    /\ cycle.gets = 1
    /\ Len(log) >= 2
    /\ LET i == Len(log) - 1
       IN  /\ Carries(log[i].rec)
           /\ Carries(log[i + 1].rec)
           /\ FieldOf(log[i].rec, "lastTrade") = FieldOf(log[i + 1].rec, "lastTrade")
           /\ HasTrade(log[i])
           /\ ~HasTrade(log[i + 1])

(* C4: the feed thread never terminates: whatever fails, it is connecting  *)
(* or receiving.                                                           *)
C4_FeedNeverTerminates == recvs > 0 => feed_pc # "dead"

(* C5, as stated: in the trim scenario the history holds exactly as many   *)
(* Frames as the viewport is wide once the last cycle's update returned.   *)
C5_TrimScenario ==
    (total_updates = ScenarioCycles /\ main_pc = "draw")
        => Len(all_frames) = ScenarioWidth

(* C5, amended: the trim check of a cycle runs before that cycle's drain,  *)
(* so after the last cycle the history holds the viewport width, the       *)
(* record of each cycle since the last trim check, and one more: 51 Frames *)
(* for width 50 and 5100 cycles.                                           *)
C5_TrimScenarioAmended ==
    /\ (total_updates = ScenarioCycles /\ main_pc = "draw")
        => Len(all_frames) = ScenarioWidth + 1 + (ScenarioCycles % TrimEvery)
    /\ (total_updates >= TrimEvery /\ main_pc = "draw")
        => Len(all_frames) = ScenarioWidth + 1 + (total_updates % TrimEvery)

C5_Witness ==
    /\ total_updates = ScenarioCycles
    /\ main_pc = "draw"
    /\ trims # <<>>
    /\ trims[Len(trims)].at = (ScenarioCycles \div TrimEvery) * TrimEvery
    /\ trims[Len(trims)].after = ScenarioWidth

(* C6: the history is as long as the number of records got from the queue  *)
(* while no trim has occurred; a trim occurs only in a cycle whose number  *)
(* is a multiple of 100 and only on a history longer than the width, and   *)
(* leaves min(previous length, width) Frames.                              *)
C6_LengthCountsDrained ==
    /\ trims = <<>> => Len(all_frames) = Len(log)
    /\ \A k \in 1..Len(trims) :
        /\ trims[k].at % TrimEvery = 0
        /\ trims[k].before > width
        /\ trims[k].after = Min(trims[k].before, width)

(* C7: at every moment the history is a contiguous suffix, in the order of *)
(* derivation, of all the Frames ever derived: a trim drops only the       *)
(* oldest entries and reorders or alters none.                             *)
C7_HistoryIsSuffix == IsSuffix(all_frames, Derived)

\* after a trim, a history of differing Frames that is shorter than all derived
C7_Witness ==
    /\ trims # <<>>
    /\ Len(all_frames) < Len(Derived)
    /\ Len(all_frames) > width
    /\ all_frames[1] # all_frames[Len(all_frames)]

(* C8: a drain that finds the queue empty at its first get never blocks:   *)
(* update returns in that step, having appended no Frame in the cycle and  *)
(* leaving the identifier last seen and the last price as they were, and   *)
(* the cycle goes on to drawing.                                           *)
C8_EmptyQueueReturns ==
    /\ []((main_pc = "drain" /\ tick_queue = <<>>) => ENABLED DrainEmpty)
    /\ [][ (main_pc = "drain" /\ cycle.gets = 0 /\ tick_queue = <<>> /\ UNCHANGED feedvars)
            => /\ main_pc' = "draw"
               /\ cycle'.appended = 0
               /\ all_frames' = all_frames
               /\ last_trade_time' = last_trade_time
               /\ last_price' = last_price ]_vars

\* a cycle of a dead feed that reached drawing after one get of an empty queue
C8_Witness ==
    /\ main_pc = "draw"
    /\ cycle = [gets |-> 1, appended |-> 0]
    /\ feed_pc = "dead"
    /\ log # <<>>

(* C9: every record got yields a Frame whose bid and ask are the record's  *)
(* quote.bid and quote.ask, absent when the field is missing; a record     *)
(* with no recognized field yields the Frame with all three absent; the    *)
(* three records of the end-to-end scenario add the Frames                 *)
(* (absent,100,105), (102,100,105), (absent,101,104).                      *)
C9_FieldMapping ==
    /\ \A i \in 1..Len(log) :
        /\ Yielded(log[i])
        /\ PriceOf(log[i].frame[1].bid) = FieldOf(log[i].rec, "bid")
        /\ PriceOf(log[i].frame[1].ask) = FieldOf(log[i].rec, "ask")
        /\ (\A k \in Keys : FieldOf(log[i].rec, k) = None)
              => log[i].frame[1] = Frame(None, None, None)
    /\ (enqueued = <<Scenario1, Scenario2, Scenario3>> /\ Len(log) = 3)
        => all_frames = << Frame(None, Some(100), Some(105)),
                           Frame(Some(102), Some(100), Some(105)),
                           Frame(None, Some(101), Some(104)) >>

(* C10: a message that fails to parse puts nothing on the queue, leaves    *)
(* the thread receiving on the same connection, and the records enqueued   *)
(* are exactly the parsed messages, in order.                              *)
C10_ParseFailureDiscarded ==
    /\ [](enqueued = Parsed(inbox))
    /\ [][ (inbox' # inbox /\ ~CanParse(inbox'[Len(inbox')]))
            => /\ tick_queue' = tick_queue
               /\ enqueued' = enqueued
               /\ feed_pc' = "recv"
               /\ ws' = ws ]_vars

\* an unparsable message was received, and a later message was enqueued on the same connection
C10_Witness ==
    /\ Len(inbox) >= 2
    /\ ~CanParse(inbox[1])
    /\ CanParse(inbox[2])
    /\ enqueued = <<JsonLoads(inbox[2])>>
    /\ ws = 1
    /\ feed_pc = "recv"

(* C11: when the receive call fails, a connection attempt to the thread's  *)
(* one url is made in that same step, nothing is put on the queue and the  *)
(* records already enqueued stay as they are.                              *)
C11_ReconnectSameUrl ==
    [][ (recvs' = recvs + 1 /\ inbox' = inbox)
          => /\ Len(attempts') = Len(attempts) + 1
             /\ attempts'[Len(attempts')] = Url(venue, symbol)
             /\ \A i \in 1..Len(attempts') : attempts'[i] = attempts'[1]
             /\ url' = url
             /\ tick_queue' = tick_queue
             /\ enqueued' = enqueued ]_vars

\* a receive failed with a record on the queue, and a second connection was made
C11_Witness ==
    /\ recvs = 2
    /\ inbox # <<>>
    /\ Len(inbox) = 1
    /\ Len(tick_queue) = 1
    /\ Len(attempts) = 2
    /\ ws = 2
    /\ feed_pc = "recv"

-----------------------------------------------------------------------------
(* The coordinate conversions applied to a price, for scales and centers   *)
(* the wheel and the drag can produce and others                           *)

CoordScales == {StartScale, Frac(48, 1000), Frac(1, 2), Frac(1, 1), Frac(6, 5), Frac(20, 1)}
CoordCenters == {FromInt(StartMid), Frac(15001, 2), Frac(5, 6), FromInt(0)}
CoordPrices == UNION { {base - d, base + d} : base \in {0, StartMid}, d \in 0..MaxDelta }

InitCoord ==
    /\ PipeAtRest(Width, TRUE)
    /\ devices = NewDevices
    /\ ui_pc = "poll"
    /\ poll = NoPoll
    /\ boot = Booted
    /\ \E sc \in CoordScales, c \in CoordCenters, p \in CoordPrices :
        /\ view = [NewView(Width) EXCEPT !.y_scale = sc, !.mid_y = c]
        /\ conv = [pc |-> "price", price |-> p, screen_y |-> 0, back |-> 0]

\* line 83: the price of a point to its row
ToScreen ==
    /\ conv.pc = "price"
    /\ conv' = [conv EXCEPT !.pc = "row",
                            !.screen_y = get_screen_y_from_price(view, FromInt(conv.price))]
    /\ UNCHANGED <<pipevars, view, devices, ui_pc, poll, boot>>

\* line 124: a row back to the price the caption shows
ToPrice ==
    /\ conv.pc = "row"
    /\ conv' = [conv EXCEPT !.pc = "done",
                            !.back = get_price_from_screen_y(view, conv.screen_y)]
    /\ UNCHANGED <<pipevars, view, devices, ui_pc, poll, boot>>

NextCoord == ToScreen \/ ToPrice

SpecCoord == InitCoord /\ [][NextCoord]_vars

(* C12, as stated: a price taken to its row and back differs from the      *)
(* price by at most 1, for every scale and center.                         *)
C12_RoundTrip == conv.pc = "done" => Abs(conv.back - conv.price) <= 1

(* C12, amended: the round trip of an integer price differs from the price *)
(* by at most 1/scale + 1, and by at most 1 when the scale is at least 1.  *)
C12_RoundTripAmended ==
    conv.pc = "done" =>
        /\ Abs(conv.back - conv.price) * view.y_scale[1] <= view.y_scale[2] + view.y_scale[1]
        /\ FLeq(FromInt(1), view.y_scale) => Abs(conv.back - conv.price) <= 1

\* at the scale the chart starts with, a round trip that is off by more than 1
C12_Witness ==
    /\ conv.pc = "done"
    /\ view.y_scale = StartScale
    /\ view.mid_y = FromInt(StartMid)
    /\ Abs(conv.back - conv.price) > 1

-----------------------------------------------------------------------------
(* Devices.update_state and Application.handle_inputs *)

Event(type, x, y, button, key) == [type |-> type, x |-> x, y |-> y, button |-> button, key |-> key]

Events ==
    {Event("QUIT", 0, 0, 0, 0)}
    \cup {Event("MOUSEMOTION", 3, y, 0, 0) : y \in {10, 35}}
    \cup {Event("MOUSEBUTTONDOWN", 0, 0, b, 0) : b \in {1, 2, 4, 5}}
    \cup {Event("MOUSEBUTTONUP", 0, 0, b, 0) : b \in {1, 4}}
    \cup {Event("KEYDOWN", 0, 0, 0, 27), Event("KEYUP", 0, 0, 0, 27)}

EventLists == UNION { [1..n -> Events] : n \in 0..MaxEvents }

\* the single tick traits carried over from the last poll
KeepTicks(d) == d

\* lines 156-159
ResetTicks(d) ==
    [d EXCEPT !.x_movement = 0, !.y_movement = 0,
              !.mwheel_rolled_down = FALSE, !.mwheel_rolled_up = FALSE]

\* lines 167-191 for one event other than QUIT
ApplyEvent(d, ev) ==
    CASE ev.type = "MOUSEMOTION" ->
            [d EXCEPT !.mousex = ev.x, !.mousey = ev.y,
                      !.x_movement = @ + (ev.x - d.mousex),
                      !.y_movement = @ + (ev.y - d.mousey)]
      [] ev.type = "MOUSEBUTTONDOWN" ->
            IF ev.button = 1 THEN [d EXCEPT !.button = TRUE]
            ELSE IF ev.button = 4 THEN [d EXCEPT !.mwheel_rolled_up = TRUE]
            ELSE IF ev.button = 5 THEN [d EXCEPT !.mwheel_rolled_down = TRUE]
            ELSE d
      [] ev.type = "MOUSEBUTTONUP" ->
            IF ev.button = 1 THEN [d EXCEPT !.button = FALSE] ELSE d
      [] ev.type = "KEYDOWN" -> [d EXCEPT !.keysdown = @ \cup {ev.key}]
      [] ev.type = "KEYUP" -> [d EXCEPT !.keysdown = @ \ {ev.key}]
      [] OTHER -> d

\* lines 161-191: the loop over the events; QUIT ends the process at once
RECURSIVE EventLoop(_, _)
EventLoop(d, evs) ==
    IF evs = <<>> THEN [dev |-> d, quit |-> FALSE]
    ELSE IF Head(evs).type = "QUIT" THEN [dev |-> d, quit |-> TRUE]
    ELSE EventLoop(ApplyEvent(d, Head(evs)), Tail(evs))

\* the vertical pointer movement of the events that arrive while the button is held
RECURSIVE HeldMovement(_, _, _)
HeldMovement(held, y, evs) ==
    IF evs = <<>> THEN 0
    ELSE LET ev == Head(evs)
         IN  CASE ev.type = "MOUSEMOTION" ->
                    (IF held THEN ev.y - y ELSE 0) + HeldMovement(held, ev.y, Tail(evs))
               [] ev.type = "MOUSEBUTTONDOWN" /\ ev.button = 1 -> HeldMovement(TRUE, y, Tail(evs))
               [] ev.type = "MOUSEBUTTONUP" /\ ev.button = 1 -> HeldMovement(FALSE, y, Tail(evs))
               [] OTHER -> HeldMovement(held, y, Tail(evs))

Delivers(evs, button) ==
    \E i \in 1..Len(evs) : evs[i].type = "MOUSEBUTTONDOWN" /\ evs[i].button = button

\* line 129, lines 155-191
UpdateState ==
    /\ ui_pc = "poll"
    /\ poll.frames < MaxFrames
    /\ \E evs \in EventLists :
        LET r == EventLoop(ResetTicks(devices), evs)
        IN  /\ devices' = r.dev
            /\ ui_pc' = IF r.quit THEN "exited" ELSE "handle"
            /\ poll' = [frames |-> poll.frames + 1, empty |-> evs = <<>>, before |-> devices,
                        held_movement |-> HeldMovement(devices.button, devices.mousey, evs),
                        ups |-> Delivers(evs, 4), downs |-> Delivers(evs, 5)]
    /\ UNCHANGED <<pipevars, view, conv, boot>>

\* line 130, lines 107-120
HandleInputs ==
    /\ ui_pc = "handle"
    /\ LET panned == IF devices.button
                     THEN FAdd(view.mid_y, FDiv(FromInt(devices.y_movement), view.y_scale))
                     ELSE view.mid_y
           up == IF devices.mwheel_rolled_up
                 THEN FMul(view.y_scale, Frac(12, 10)) ELSE view.y_scale
           down == IF devices.mwheel_rolled_down THEN FDiv(up, Frac(12, 10)) ELSE up
       IN  view' = [view EXCEPT !.mid_y = panned, !.y_scale = down]
    /\ ui_pc' = "poll"
    /\ UNCHANGED <<pipevars, devices, poll, conv, boot>>

InitInput == InitWith(Width, TRUE)

NextInput == UpdateState \/ HandleInputs

SpecInput == InitInput /\ [][NextInput]_vars

(* C13: when handle_inputs runs, the wheel flags and the movement deltas   *)
(* tell of the events of the poll just made and of no earlier one, and a   *)
(* poll that delivers nothing leaves pointer position, button and keys     *)
(* held as they were.                                                      *)
C13_TicksLastOnePoll ==
    /\ [](ui_pc = "handle" =>
            /\ devices.mwheel_rolled_up = poll.ups
            /\ devices.mwheel_rolled_down = poll.downs
            /\ devices.x_movement = devices.mousex - poll.before.mousex
            /\ devices.y_movement = devices.mousey - poll.before.mousey)
    /\ [][ (ui_pc = "poll" /\ ui_pc' = "handle" /\ poll'.empty)
            => /\ devices'.mousex = devices.mousex
               /\ devices'.mousey = devices.mousey
               /\ devices'.button = devices.button
               /\ devices'.keysdown = devices.keysdown ]_vars

\* the second poll delivers nothing: the wheel tick of the first, which changed
\* the scale, is no longer flagged and the movement is zero, while the pointer
\* stays where the first poll's motion left it
C13_Witness ==
    /\ ui_pc = "handle"
    /\ poll.frames = 2
    /\ poll.empty
    /\ ~devices.mwheel_rolled_up
    /\ view.y_scale = FMul(StartScale, Frac(12, 10))
    /\ devices.mousey # 0
    /\ devices.y_movement = 0

(* C14: handle_inputs moves the center by the vertical movement of the     *)
(* events that arrived while the button was held, divided by the scale,    *)
(* and by nothing else.                                                    *)
C14_PanOnlyWhileHeld ==
    [][ (ui_pc = "handle" /\ ui_pc' = "poll")
          => view'.mid_y = FAdd(view.mid_y, FDiv(FromInt(poll.held_movement), view.y_scale)) ]_vars

-----------------------------------------------------------------------------
(* __main__ and get_json_from_url *)

Bodies ==
    {Body("null", FALSE, FALSE, None), Body("number", FALSE, FALSE, None)}
    \cup {Body(t, h, FALSE, None) : t \in {"string", "list"}, h \in BOOLEAN}
    \cup {Body("dict", FALSE, FALSE, None)}
    \cup {Body("dict", TRUE, ok, sy) :
            ok \in BOOLEAN,
            sy \in {None, Some(<<>>), Some(<<None>>), Some(<<Some("FOOBAR")>>),
                    Some(<<Some("FOOBAR"), Some("BARFOO")>>)}}

Replies ==
    {Reply("TimeoutError", FALSE, NoReply.body), Reply("ConnectionError", FALSE, NoReply.body),
     Reply("reply", FALSE, NoReply.body)}
    \cup {Reply("reply", TRUE, b) : b \in Bodies}

Outcome(raised, result, printed) == [raised |-> raised, result |-> result, printed |-> printed]

\* lines 276-306
get_json_from_url(reply) ==
    IF reply.net # "reply"
        THEN Outcome(None, None, <<"TIMED OUT WAITING FOR REPLY">>)
    ELSE IF ~reply.json
        THEN Outcome(None, None, <<"r.text", "RESULT WAS NOT VALID JSON.">>)
    ELSE IF reply.body.t \in {"null", "number"}
        THEN Outcome(Some("TypeError"), None, <<>>)
    ELSE IF ~reply.body.has_ok
        THEN Outcome(None, None, <<"r.text", "THE 'ok' FIELD WAS NOT PRESENT.">>)
    ELSE IF reply.body.t # "dict"
        THEN Outcome(Some("TypeError"), None, <<>>)
    ELSE IF ~reply.body.ok
        THEN Outcome(None, None, <<"r.text", "THE 'ok' FIELD WAS NOT TRUE.">>)
    ELSE Outcome(None, Some(reply.body), <<>>)

\* line 317: r["symbols"][0]["symbol"]
FirstSymbol(r) ==
    IF r.symbols = None THEN [raised |-> Some("KeyError"), symbol |-> None]
    ELSE IF r.symbols[1] = <<>> THEN [raised |-> Some("IndexError"), symbol |-> None]
    ELSE IF r.symbols[1][1] = None THEN [raised |-> Some("KeyError"), symbol |-> None]
    ELSE [raised |-> None, symbol |-> r.symbols[1][1]]

\* lines 312-321, Application.__init__ and Data.__init__ with the thread's start
ListStocks ==
    /\ boot.pc = "ask"
    /\ \E reply \in Replies :
        LET got == get_json_from_url(reply)
            first == FirstSymbol(got.result[1])
        IN  IF got.raised # None
                THEN /\ boot' = [pc |-> "raised", reply |-> reply,
                                 printed |-> got.printed, raised |-> got.raised]
                     /\ UNCHANGED <<symbol, feed_pc, main_pc>>
            ELSE IF got.result = None
                THEN /\ boot' = [pc |-> "ack", reply |-> reply,
                                 printed |-> got.printed, raised |-> None]
                     /\ UNCHANGED <<symbol, feed_pc, main_pc>>
            ELSE IF first.raised # None
                THEN /\ boot' = [pc |-> "raised", reply |-> reply,
                                 printed |-> got.printed, raised |-> first.raised]
                     /\ UNCHANGED <<symbol, feed_pc, main_pc>>
            ELSE /\ boot' = [pc |-> "chart", reply |-> reply,
                             printed |-> got.printed, raised |-> None]
                 /\ symbol' = first.symbol[1]
                 /\ feed_pc' = "start"
                 /\ main_pc' = "loop"
    /\ UNCHANGED <<datavars, ws, recvs, histvars, venue, connvars, drawn,
                   view, devices, ui_pc, poll, conv>>

\* line 321: input() returns and the program ends
Acknowledge ==
    /\ boot.pc = "ack"
    /\ boot' = [boot EXCEPT !.pc = "exit"]
    /\ UNCHANGED <<pipevars, view, devices, ui_pc, poll, conv>>

InitStartup ==
    /\ PipeWith(Width, TRUE, "", "none", "none")
    /\ view = NewView(Width)
    /\ devices = NewDevices
    /\ ui_pc = "poll"
    /\ poll = NoPoll
    /\ conv = NoConv
    /\ boot = [pc |-> "ask", reply |-> NoReply, printed |-> <<>>, raised |-> None]

NextStartup == ListStocks \/ Acknowledge \/ Next

SpecStartup == InitStartup /\ [][NextStartup]_vars

ListingFailed(reply) ==
    \/ reply.net \in {"TimeoutError", "ConnectionError"}
    \/ reply.net = "reply" /\ ~reply.json
    \/ reply.net = "reply" /\ reply.json /\ ~(reply.body.t = "dict" /\ reply.body.has_ok)
    \/ reply.net = "reply" /\ reply.json /\ reply.body.t = "dict" /\ reply.body.has_ok
          /\ ~reply.body.ok

ListingOk(reply) ==
    reply.net = "reply" /\ reply.json /\ reply.body.t = "dict" /\ reply.body.has_ok
        /\ reply.body.ok

(* C15: startup never raises. A listing call that fails by network error,  *)
(* body that is no JSON, missing ok or ok not true prints a diagnostic,    *)
(* starts neither chart nor feed thread and waits for the user; a listing  *)
(* with ok true brings the chart up.                                       *)
C15_StartupNeverCrashes ==
    /\ boot.pc # "raised"
    /\ ListingFailed(boot.reply)
          => /\ boot.pc \in {"ack", "exit"}
             /\ boot.printed # <<>>
             /\ feed_pc = "none" /\ main_pc = "none"
    /\ ListingOk(boot.reply) => boot.pc = "chart" /\ feed_pc # "none" /\ main_pc # "none"

-----------------------------------------------------------------------------
(* What draw_frames paints *)

Max(S) == CHOOSE m \in S : \A n \in S : n <= m

\* the rows draw_point sets at its column (lines 83-87)
Rows(call) ==
    LET y == get_screen_y_from_price(view, FromInt(call.point.price))
    IN  IF call.point.large THEN {y - 1, y, y + 1} ELSE {y}

\* the colour of a pixel after the calls, <<>> where none set it
Pixel(calls, x, y) ==
    LET on == {i \in 1..Len(calls) : calls[i].x = x /\ y \in Rows(calls[i])}
    IN  IF on = {} THEN <<>> ELSE calls[Max(on)].point.color

\* the k-th most recent frame
Recent(k) == all_frames[Len(all_frames) - k]

Present(frame) == {p[1] : p \in {frame.bid, frame.ask, frame.trade} \ {None}}

Rank(point) == IF point.large THEN 3 ELSE IF point.color = <<255, 0, 0>> THEN 2 ELSE 1

(* C16: after a draw, the calls of draw_point are exactly the present      *)
(* fields of the k-th most recent frame at column width-1-k for k below    *)
(* min(history length, width), newest frame first and bid, ask, trade      *)
(* within a frame; no column is negative; and every pixel of a trade mark  *)
(* keeps the trade's colour.                                               *)
C16_DrawingOrder ==
    main_pc = "loop" =>
        LET n == Min(Len(all_frames), view.width)
        IN  /\ \A i \in 1..Len(drawn) :
                  /\ drawn[i].x >= 0
                  /\ \E k \in 0..(n - 1) :
                        /\ drawn[i].x = view.width - 1 - k
                        /\ drawn[i].point \in Present(Recent(k))
            /\ \A k \in 0..(n - 1) : \A p \in Present(Recent(k)) :
                  Cardinality({i \in 1..Len(drawn) :
                                  drawn[i] = DrawPoint(view.width - 1 - k, p)}) = 1
            /\ \A i, j \in 1..Len(drawn) :
                  i < j => \/ drawn[i].x > drawn[j].x
                           \/ drawn[i].x = drawn[j].x
                                /\ Rank(drawn[i].point) < Rank(drawn[j].point)
            /\ \A i \in 1..Len(drawn) :
                  drawn[i].point.large
                    => \A y \in Rows(drawn[i]) :
                          Pixel(drawn, drawn[i].x, y) = drawn[i].point.color

\* more frames than columns, a frame with bid, ask and trade whose bid mark lies
\* on a row of the trade mark, and both columns drawn
C16_Witness ==
    /\ main_pc = "loop"
    /\ Len(all_frames) > view.width
    /\ \E i, j \in 1..Len(drawn) : drawn[i].x = 0 /\ drawn[j].x = view.width - 1
    /\ \E i, j \in 1..Len(drawn) :
          /\ i < j
          /\ drawn[i].x = drawn[j].x
          /\ Rank(drawn[i].point) = 1 /\ drawn[j].point.large
          /\ Rows(drawn[i]) \subseteq Rows(drawn[j])
    /\ \E k \in 0..(view.width - 1) : Cardinality(Present(Recent(k))) = 3

-----------------------------------------------------------------------------
(* The render loop keeps running: the main thread is never held back, so   *)
(* each step of Application.run that can be taken is taken.                *)

RenderLoop == UpdateBegin(MaxCycles) \/ DrainOne \/ DrainEmpty \/ Draw

SpecFair == Init /\ [][Next]_vars /\ WF_vars(RenderLoop)

(* C17: every call of Data.update returns and the render loop reaches its  *)
(* draw step, whatever the feed thread does meanwhile.                     *)
C17_CycleTerminates == (main_pc = "drain") ~> (main_pc = "draw")

-----------------------------------------------------------------------------
(* The window of the history that draw_frames shows *)

\* the (column, Frame) pairs draw_frames visits, newest first
Window(ls, w) ==
    [k \in 1..Min(Len(ls), w) |-> [x |-> w - k, frame |-> ls[Len(ls) + 1 - k]]]

(* C18: a trim changes nothing of what draw_frames would draw, neither the *)
(* (column, Frame) pairs nor the calls of draw_point, and at every moment  *)
(* the history shows the window that all the Frames ever derived, never    *)
(* trimmed, would show.                                                    *)
C18_TrimInvisible ==
    /\ [][ trims' # trims
            => /\ Window(all_frames', width') = Window(all_frames, width)
               /\ draw_frames(all_frames', view'.width) = draw_frames(all_frames, view.width) ]_vars
    /\ [](/\ Window(all_frames, width) = Window(Derived, width)
          /\ draw_frames(all_frames, view.width) = draw_frames(Derived, view.width))

\* drawn after a trim that dropped Frames: the calls are those of the whole derivation
C18_Witness ==
    /\ main_pc = "loop"
    /\ trims # <<>>
    /\ trims[Len(trims)].before > trims[Len(trims)].after
    /\ Len(all_frames) < Len(Derived)
    /\ drawn # <<>>
    /\ drawn = draw_frames(Derived, view.width)
    /\ Len(Window(all_frames, width)) = width

-----------------------------------------------------------------------------
(* C19: whenever processing a record changes the identifier of the last    *)
(* trade seen, the Frame appended for that record has a trade and the last *)
(* price is that trade's price.                                            *)
C19_SeenOnlyWithTrade ==
    [][ last_trade_time' # last_trade_time
          => /\ Len(all_frames') = Len(all_frames) + 1
             /\ all_frames'[Len(all_frames')].trade # None
             /\ last_price' = PriceOf(all_frames'[Len(all_frames')].trade) ]_vars

====
